---- MODULE Spec2Model ----
(***************************************************************************)
(* Model of github.com/postfinance/vault: the kv package (a version        *)
(* agnostic Read/Write/List adapter over Vault's KV engines) and the k8s   *)
(* package (configuration from the environment, login with the service    *)
(* account token, the persisted Vault token).                              *)
(*                                                                         *)
(* Go strings are TLA+ strings; TLC evaluates Len, SubSeq and \o on them,  *)
(* so the string functions of the source are computed character by         *)
(* character here.                                                         *)
(***************************************************************************)
EXTENDS Integers, Sequences, FiniteSets, TLC

VARIABLES
    mounts,           \* the service's mount table: mount prefix -> [Type, Version]
    secrets,          \* the service's store: logical secret path -> stored body
    client,           \* the kv.Client handle (NoClient before a successful New)
    token,            \* the bearer token set on the wrapped api client
    listMountsCalls,  \* how often Sys().ListMounts() was called
    written,          \* caller paths written through the handle with a nil error
    last,             \* the last call: its arguments, what was sent, what came back
    fnIn,             \* arguments of the pure function under check
    fnOut,            \* its results so far
    vault,            \* the k8s.Vault configuration (NoVault before NewFromEnvironment)
    environ,          \* the process environment: variable name -> value
    fs,               \* the files the k8s package reads and writes: path -> content
    called            \* the last call of the k8s package and what it returned

vars == <<mounts, secrets, client, token, listMountsCalls, written, last,
          fnIn, fnOut, vault, environ, fs, called>>

kvVars == <<mounts, secrets, client, token, listMountsCalls, written, last>>

k8sVars == <<vault, environ, fs, called>>

-----------------------------------------------------------------------------
(* Bounds of the model.                                                    *)

MaxSegs == 3          \* segments of an enumerated path argument
MaxMountSegs == 2     \* segments of an enumerated mount argument
MaxWritten == 2       \* caller paths written to in one behaviour
MaxListMounts == 2    \* ListMounts queries in one behaviour

-----------------------------------------------------------------------------
(* package strings / path, as far as the source uses them.                 *)

Char(s, i) == SubSeq(s, i, i)

HasPrefix(s, prefix) ==
    Len(prefix) <= Len(s) /\ SubSeq(s, 1, Len(prefix)) = prefix

HasSuffix(s, suffix) ==
    Len(suffix) <= Len(s) /\ SubSeq(s, Len(s) - Len(suffix) + 1, Len(s)) = suffix

TrimPrefix(s, prefix) ==
    IF HasPrefix(s, prefix) THEN SubSeq(s, Len(prefix) + 1, Len(s)) ELSE s

ContainsRune(s, r) == \E i \in 1..Len(s) : Char(s, i) = r

\* strings.Index for a one-character separator; 0 when absent.
Index(s, sep) ==
    IF ContainsRune(s, sep)
    THEN CHOOSE i \in 1..Len(s) :
            /\ Char(s, i) = sep
            /\ \A j \in 1..(i - 1) : Char(s, j) # sep
    ELSE 0

RECURSIVE Split(_, _)
Split(s, sep) ==
    LET i == Index(s, sep)
    IN  IF i = 0 THEN <<s>>
        ELSE <<SubSeq(s, 1, i - 1)>> \o Split(SubSeq(s, i + 1, Len(s)), sep)

RECURSIVE TrimLeft(_, _)
TrimLeft(s, cut) ==
    IF Len(s) > 0 /\ Char(s, 1) = cut THEN TrimLeft(SubSeq(s, 2, Len(s)), cut) ELSE s

RECURSIVE StringsJoin(_, _)
StringsJoin(elems, sep) ==
    IF Len(elems) = 0 THEN ""
    ELSE IF Len(elems) = 1 THEN elems[1]
    ELSE elems[1] \o sep \o StringsJoin(Tail(elems), sep)

\* path.Clean on the segments of a path: empty and "." segments are dropped, a
\* ".." segment takes the segment before it away (or stays, when there is none
\* and the path is not rooted).
RECURSIVE CleanSegs(_, _, _)
CleanSegs(segs, out, rooted) ==
    IF Len(segs) = 0 THEN out
    ELSE LET e == Head(segs)
             rest == Tail(segs)
         IN  IF e = "" \/ e = "." THEN CleanSegs(rest, out, rooted)
             ELSE IF e = ".."
                  THEN IF Len(out) > 0 /\ out[Len(out)] # ".."
                       THEN CleanSegs(rest, SubSeq(out, 1, Len(out) - 1), rooted)
                       ELSE IF rooted THEN CleanSegs(rest, out, rooted)
                       ELSE CleanSegs(rest, Append(out, ".."), rooted)
                  ELSE CleanSegs(rest, Append(out, e), rooted)

Clean(p) ==
    IF p = "" THEN "."
    ELSE LET rooted == Char(p, 1) = "/"
             body == StringsJoin(CleanSegs(Split(p, "/"), <<>>, rooted), "/")
         IN  IF rooted THEN "/" \o body
             ELSE IF body = "" THEN "." ELSE body

\* path.Join: leading empty elements are ignored, the rest is joined and cleaned.
RECURSIVE PathJoin(_)
PathJoin(elems) ==
    IF Len(elems) = 0 THEN ""
    ELSE IF Head(elems) = "" THEN PathJoin(Tail(elems))
    ELSE Clean(StringsJoin(elems, "/"))

-----------------------------------------------------------------------------
(* package k8s: FixAuthMountPath.                                          *)

\* Variant: the leading "/" is not stripped.
FixAuthMountPath_NoTrimLeft(p) ==
    LET pp == Split(p, "/")
    IN  IF pp[1] = "auth"
        THEN PathJoin(pp)
        ELSE PathJoin(<<"auth">> \o pp)

FixAuthMountPath(p) ==
    LET pp == Split(TrimLeft(p, "/"), "/")
    IN  IF pp[1] = "auth"
        THEN PathJoin(pp)
        ELSE PathJoin(<<"auth">> \o pp)

-----------------------------------------------------------------------------
(* package kv: constants and FixPath (mount-aware variant).                *)

ReadPrefix == "data"
WritePrefix == ReadPrefix
ListPrefix == "metadata"

\* Variant: the sub-path is inserted whether or not it is there already.
FixPath_AlwaysInsert(path, mount, prefix) ==
    LET m == IF ~HasSuffix(mount, "/") THEN mount \o "/" ELSE mount
    IN  m \o prefix \o "/" \o TrimPrefix(path, m)

\* Variant: the sub-path is inserted after the path's first segment, whatever
\* the mount is.
FixPath_FirstSegment(path, mount, prefix) ==
    LET pp == Split(path, "/")
    IN  IF Len(pp) > 1 /\ pp[2] = prefix
        THEN path
        ELSE pp[1] \o "/" \o prefix \o "/" \o StringsJoin(Tail(pp), "/")

FixPath(path, mount, prefix) ==
    LET m == IF ~HasSuffix(mount, "/") THEN mount \o "/" ELSE mount
        secretPath == TrimPrefix(path, m)
        pp == Split(secretPath, "/")
    IN  IF pp[1] = prefix
        THEN path
        ELSE m \o prefix \o "/" \o secretPath

-----------------------------------------------------------------------------
(* Values. A Go interface{} value is a record tagged by its dynamic type:  *)
(* [str |-> s], [map |-> m], [list |-> l] or [null |-> TRUE]. A Go map is  *)
(* a function from its keys. A possibly-nil map or slice is a sequence of  *)
(* length 0 (nil) or 1. A nil error is "".                                 *)

Str(x) == [str |-> x]
Map(m) == [map |-> m]
ListOf(l) == [list |-> l]
Null == [null |-> TRUE]

IsStr(v) == "str" \in DOMAIN v
IsMap(v) == "map" \in DOMAIN v
IsList(v) == "list" \in DOMAIN v

EmptyMap == [k \in {} |-> Null]
Nil == <<>>

\* strconv.Atoi on the short strings a version option holds: an optional sign,
\* then decimal digits.
Digits == <<"0", "1", "2", "3", "4", "5", "6", "7", "8", "9">>
IsDigit(c) == \E d \in 1..10 : Digits[d] = c
DigitVal(c) == (CHOOSE d \in 1..10 : Digits[d] = c) - 1

RECURSIVE ParseDigits(_, _)
ParseDigits(s, acc) ==
    IF s = "" THEN acc
    ELSE ParseDigits(SubSeq(s, 2, Len(s)), 10 * acc + DigitVal(Char(s, 1)))

Atoi(s) ==
    LET signed == Len(s) > 0 /\ (Char(s, 1) = "+" \/ Char(s, 1) = "-")
        body == IF signed THEN SubSeq(s, 2, Len(s)) ELSE s
        n == ParseDigits(body, 0)
    IN  IF body = "" \/ \E i \in 1..Len(body) : ~IsDigit(Char(body, i))
        THEN [val |-> 0,
              err |-> "strconv.Atoi: parsing \"" \o s \o "\": invalid syntax"]
        ELSE [val |-> IF signed /\ Char(s, 1) = "-" THEN 0 - n ELSE n, err |-> ""]

-----------------------------------------------------------------------------
(* package kv, mount-aware variant: Client and New.                        *)

NoClient == [nil |-> TRUE, Version |-> 0, Mount |-> ""]
Client(version, mount) == [nil |-> FALSE, Version |-> version, Mount |-> mount]

\* m.Options["version"]: the zero value "" when the option is missing.
OptionVersion(m) ==
    IF "version" \in DOMAIN m.Options THEN m.Options["version"] ELSE ""

\* Variant: a mount of any other type is taken for a revision-1 engine.
MountVerdict_AnyTypeIsKV(mts, k, p) ==
    LET m == mts[k]
    IN  IF m.Type = "kv"
        THEN LET a == Atoi(OptionVersion(m))
             IN  IF a.err # ""
                 THEN [version |-> 0, mount |-> "", err |-> a.err]
                 ELSE [version |-> a.val, mount |-> k, err |-> ""]
        ELSE [version |-> 1, mount |-> k, err |-> ""]

\* What the mount k, the first matching one the range loop visits, decides.
MountVerdict(mts, k, p) ==
    LET m == mts[k]
    IN  IF m.Type = "kv"
        THEN LET a == Atoi(OptionVersion(m))
             IN  IF a.err # ""
                 THEN [version |-> 0, mount |-> "", err |-> a.err]
                 ELSE [version |-> a.val, mount |-> k, err |-> ""]
        ELSE IF m.Type = "generic"
        THEN [version |-> 1, mount |-> k, err |-> ""]
        ELSE [version |-> 0, mount |-> "",
              err |-> "matching mount " \o k \o " for path " \o p
                      \o " is not of type kv"]

\* getVersionAndMount after a successful ListMounts: Go visits the entries of a
\* map in an unspecified order, so any matching mount may be the one visited
\* first; the set holds every result the loop can return.
getVersionAndMount(mts, p) ==
    LET matching == {k \in DOMAIN mts : HasPrefix(p, k)}
    IN  IF matching = {}
        THEN {[version |-> 0, mount |-> "",
               err |-> "failed to get mount for path: " \o p]}
        ELSE {MountVerdict(mts, k, p) : k \in matching}

\* Variant: a leading "/" is not checked for.
NewPathError_NoLeadingSlashCheck(p) ==
    IF ~ContainsRune(p, "/")
    THEN "path " \o p \o " must contain at least one '/'"
    ELSE ""

\* The checks New makes before it queries the mount table; "" when they pass.
NewPathError(p) ==
    IF HasPrefix(p, "/")
    THEN "path " \o p \o " must not start with '/'"
    ELSE IF ~ContainsRune(p, "/")
    THEN "path " \o p \o " must contain at least one '/'"
    ELSE ""

-----------------------------------------------------------------------------
(* package kv, the two earlier variants of construction. Their handle has  *)
(* no Mount field; the model leaves it "".                                 *)

\* kv.go: what the first matching mount the range loop visits decides.
VersionVerdictInitial(mts, k, p) ==
    LET m == mts[k]
        a == Atoi(OptionVersion(m))
    IN  IF m.Type # "kv"
        THEN [version |-> 0,
              err |-> "matching mount " \o k \o " for path " \o p
                      \o " is not of type kv"]
        ELSE IF a.err # "" THEN [version |-> 0, err |-> a.err]
        ELSE IF a.val \in {1, 2} THEN [version |-> a.val, err |-> ""]
        ELSE [version |-> a.val, err |-> "unknown version"]

\* kv.go getVersion, after a successful ListMounts.
getVersionInitial(mts, p) ==
    LET matching == {k \in DOMAIN mts : HasPrefix(p, k)}
    IN  IF matching = {}
        THEN {[version |-> 0, err |-> "failed to get mount for path: " \o p]}
        ELSE {VersionVerdictInitial(mts, k, p) : k \in matching}

\* The naive variant's getVersion, after a successful ListMounts.
getVersionNaive(mts, p) ==
    {[version |-> r.version, err |-> r.err] : r \in getVersionAndMount(mts, p)}

-----------------------------------------------------------------------------
(* package kv, mount-aware variant: Read, Write, List.                     *)

ReadWire(c, p) == IF c.Version = 2 THEN FixPath(p, c.Mount, ReadPrefix) ELSE p

WriteWire(c, p) == IF c.Version = 2 THEN FixPath(p, c.Mount, WritePrefix) ELSE p

WriteBody(c, data) == IF c.Version = 2 THEN [data |-> Map(data)] ELSE data

ListWire(c, p) == IF c.Version = 2 THEN FixPath(p, c.Mount, ListPrefix) ELSE p

\* A response of the collaborator: [secret, err], secret being Nil (s == nil)
\* or <<[Data |-> Nil or <<map>>]>>.
NoSecret == [secret |-> Nil, err |-> ""]
Secret(d) == [secret |-> <<[Data |-> <<d>>]>>, err |-> ""]
CallError(e) == [secret |-> Nil, err |-> e]

Returned(val, keys, err) == [val |-> val, keys |-> keys, err |-> err, panic |-> FALSE]
Panicked == [val |-> Nil, keys |-> Nil, err |-> "", panic |-> TRUE]

\* Variant: the "data" wrapper of a revision-2 answer is not taken off.
ReadReturn_NoUnwrap(c, r) ==
    IF r.err # "" THEN Returned(Nil, Nil, r.err)
    ELSE IF r.secret = Nil \/ r.secret[1].Data = Nil THEN Returned(Nil, Nil, "")
    ELSE Returned(<<r.secret[1].Data[1]>>, Nil, "")

\* Variant: no secret at the path is an error, as in kv.go.
ReadReturn_NotFoundIsError(c, r) ==
    IF r.err # "" THEN Returned(Nil, Nil, r.err)
    ELSE IF r.secret = Nil THEN Returned(Nil, Nil, "failed to read path")
    ELSE IF r.secret[1].Data = Nil THEN Returned(Nil, Nil, "")
    ELSE LET d == r.secret[1].Data[1]
         IN  IF c.Version = 2
             THEN IF "data" \in DOMAIN d /\ IsMap(d["data"])
                  THEN Returned(<<d["data"].map>>, Nil, "")
                  ELSE Panicked
             ELSE Returned(<<d>>, Nil, "")

\* Read, from the collaborator's answer on.
ReadReturn(c, r) ==
    IF r.err # "" THEN Returned(Nil, Nil, r.err)
    ELSE IF r.secret = Nil \/ r.secret[1].Data = Nil THEN Returned(Nil, Nil, "")
    ELSE LET d == r.secret[1].Data[1]
         IN  IF c.Version = 2
             THEN IF "data" \in DOMAIN d /\ IsMap(d["data"])
                  THEN Returned(<<d["data"].map>>, Nil, "")
                  ELSE Panicked   \* the type assertion on s.Data["data"] fails
             ELSE Returned(<<d>>, Nil, "")

\* List, from the collaborator's answer on.
ListReturn(c, r) ==
    IF r.err # "" THEN Returned(Nil, Nil, r.err)
    ELSE IF r.secret = Nil \/ r.secret[1].Data = Nil THEN Returned(Nil, Nil, "")
    ELSE LET d == r.secret[1].Data[1]
         IN  IF "keys" \in DOMAIN d /\ IsList(d["keys"])
                /\ \A i \in 1..Len(d["keys"].list) : IsStr(d["keys"].list[i])
             THEN Returned(Nil,
                           <<[i \in 1..Len(d["keys"].list) |-> d["keys"].list[i].str]>>,
                           "")
             ELSE Panicked   \* a type assertion on s.Data["keys"] or an entry fails

\* Write, from the collaborator's answer on.
WriteReturn(c, r) == Returned(Nil, Nil, r.err)

-----------------------------------------------------------------------------
(* The collaborator: the secrets service behind api.Client. It routes a    *)
(* wire path to the mount whose prefix it carries and lets that mount's    *)
(* engine serve the rest. A revision-1 engine keeps the body at the path;  *)
(* a revision-2 engine serves secrets under data/ (the body wrapped in a   *)
(* "data" entry) and listings under metadata/. A read or list of something *)
(* absent answers with no secret and no error.                             *)

\* The revision the service runs a mount's engine at; 0: not a KV engine.
EngineRevision(m) ==
    IF m.Type = "generic" THEN 1
    ELSE IF m.Type = "kv"
    THEN IF OptionVersion(m) = "2" THEN 2
         ELSE IF OptionVersion(m) \in {"", "1"} THEN 1 ELSE 0
    ELSE 0

Routes(wire) == {k \in DOMAIN mounts : HasPrefix(wire, k)}

Route(wire) == CHOOSE k \in Routes(wire) : \A j \in Routes(wire) : Len(j) <= Len(k)

\* The logical path of the secret a wire path names, "" when it names none.
SecretKey(wire) ==
    IF Routes(wire) = {} THEN ""
    ELSE LET k == Route(wire)
             rel == TrimPrefix(wire, k)
             rev == EngineRevision(mounts[k])
         IN  IF rev = 1 /\ rel # "" THEN k \o rel
             ELSE IF rev = 2 /\ HasPrefix(rel, "data/") /\ rel # "data/"
                  THEN k \o TrimPrefix(rel, "data/")
             ELSE ""

\* The logical path of the folder a wire path lists, "" when it lists none.
FolderKey(wire) ==
    IF Routes(wire) = {} THEN ""
    ELSE LET k == Route(wire)
             rel == TrimPrefix(wire, k)
             rev == EngineRevision(mounts[k])
             dir == IF rev = 2 THEN TrimPrefix(TrimPrefix(rel, "metadata"), "/") ELSE rel
         IN  IF rev = 1 \/ (rev = 2 /\ (rel = "metadata" \/ HasPrefix(rel, "metadata/")))
             THEN IF dir = "" \/ HasSuffix(dir, "/") THEN k \o dir ELSE k \o dir \o "/"
             ELSE ""

\* The name a secret has in the listing of a folder above it.
ChildName(rest) ==
    IF ContainsRune(rest, "/") THEN Split(rest, "/")[1] \o "/" ELSE rest

RECURSIVE SetToSeq(_)
SetToSeq(S) ==
    IF S = {} THEN <<>>
    ELSE LET x == CHOOSE x \in S : TRUE IN <<x>> \o SetToSeq(S \ {x})

LogicalRead(wire) ==
    LET key == SecretKey(wire)
    IN  IF key = "" \/ key \notin DOMAIN secrets THEN NoSecret
        ELSE IF EngineRevision(mounts[Route(wire)]) = 2
        THEN Secret([data |-> Map(secrets[key]), metadata |-> Map(EmptyMap)])
        ELSE Secret(secrets[key])

LogicalList(wire) ==
    LET dir == FolderKey(wire)
        names == {ChildName(TrimPrefix(key, dir)) :
                     key \in {x \in DOMAIN secrets : HasPrefix(x, dir) /\ x # dir}}
    IN  IF dir = "" \/ names = {} THEN NoSecret
        ELSE Secret([keys |-> ListOf([i \in 1..Cardinality(names) |->
                                         Str(SetToSeq(names)[i])])])

\* The store after a write, and the error the write answers with.
LogicalWrite(wire, body) ==
    LET key == SecretKey(wire)
    IN  IF key = ""
        THEN [store |-> secrets, err |-> "unsupported path " \o wire]
        ELSE IF EngineRevision(mounts[Route(wire)]) = 2
        THEN IF "data" \in DOMAIN body /\ IsMap(body["data"])
             THEN [store |-> [x \in DOMAIN secrets \cup {key} |->
                                 IF x = key THEN body["data"].map ELSE secrets[x]],
                   err |-> ""]
             ELSE [store |-> secrets, err |-> "no data provided"]
        ELSE [store |-> [x \in DOMAIN secrets \cup {key} |->
                            IF x = key THEN body ELSE secrets[x]],
              err |-> ""]

TransportError == "connection refused"

-----------------------------------------------------------------------------
(* Enumerated string arguments: every path of 1..n segments over a segment *)
(* set, joined by "/". An empty segment gives the leading, trailing and    *)
(* doubled slashes.                                                        *)

RECURSIVE PathsOfLen(_, _)
PathsOfLen(segs, n) ==
    IF n <= 1 THEN segs
    ELSE {p \o "/" \o s : p \in PathsOfLen(segs, n - 1), s \in segs}

PathsUpTo(segs, n) == UNION {PathsOfLen(segs, k) : k \in 1..n}

KvSegs == {"", "s", "data", "metadata"}
AuthSegs == {"", "auth", "kubernetes", "something", ".", ".."}
Prefixes == {ReadPrefix, ListPrefix, "s"}

\* The record of a call: its arguments, the wire path and body handed to the
\* collaborator, whether the collaborator's transport failed, what was returned.
Call(op, path, data, wire, body, failed, ret) ==
    [op |-> op, path |-> path, data |-> data, wire |-> wire, body |-> body,
     failed |-> failed, val |-> ret.val, keys |-> ret.keys, err |-> ret.err,
     panic |-> ret.panic]

NoCall == Call("none", "", Nil, "", Nil, FALSE, Returned(Nil, Nil, ""))

\* The k8s package before NewFromEnvironment, with none of its files there.
NoVault ==
    [nil |-> TRUE, Role |-> "", TokenPath |-> "", ReAuth |-> FALSE, TTL |-> 0,
     AuthMountPath |-> "", ServiceAccountTokenPath |-> "", AllowFail |-> FALSE]

NoK8sCall ==
    [op |-> "none", arg |-> "", token |-> "", err |-> "", panic |-> FALSE,
     more |-> <<>>]

K8sIdle ==
    /\ vault = NoVault
    /\ environ = <<>>
    /\ fs = <<>>
    /\ called = NoK8sCall

\* The kv state while only a pure function is exercised.
KvIdle ==
    /\ mounts = <<>>
    /\ secrets = <<>>
    /\ client = NoClient
    /\ token = ""
    /\ listMountsCalls = 0
    /\ written = {}
    /\ last = NoCall

-----------------------------------------------------------------------------
(* FixPath applied to enumerated arguments, then to its own result.        *)

InitFixPath ==
    /\ KvIdle
    /\ K8sIdle
    /\ fnIn \in [fn : {"FixPath"},
                 path : PathsUpTo(KvSegs, MaxSegs),
                 mount : PathsUpTo(KvSegs, MaxMountSegs),
                 prefix : Prefixes]
    /\ fnOut = <<>>

ApplyFixPath ==
    /\ fnIn.fn = "FixPath"
    /\ Len(fnOut) = 0
    /\ fnOut' = <<FixPath(fnIn.path, fnIn.mount, fnIn.prefix)>>
    /\ UNCHANGED <<fnIn, kvVars, k8sVars>>

ApplyFixPathAgain ==
    /\ fnIn.fn = "FixPath"
    /\ Len(fnOut) = 1
    /\ fnOut' = Append(fnOut, FixPath(fnOut[1], fnIn.mount, fnIn.prefix))
    /\ UNCHANGED <<fnIn, kvVars, k8sVars>>

NextFixPath == ApplyFixPath \/ ApplyFixPathAgain

SpecFixPath == InitFixPath /\ [][NextFixPath]_vars

-----------------------------------------------------------------------------
(* FixAuthMountPath applied to enumerated arguments.                       *)

InitFixAuthMountPath ==
    /\ KvIdle
    /\ K8sIdle
    /\ fnIn \in [fn : {"FixAuthMountPath"}, path : PathsUpTo(AuthSegs, MaxSegs)]
    /\ fnOut = <<>>

ApplyFixAuthMountPath ==
    /\ fnIn.fn = "FixAuthMountPath"
    /\ Len(fnOut) = 0
    /\ fnOut' = <<FixAuthMountPath(fnIn.path)>>
    /\ UNCHANGED <<fnIn, kvVars, k8sVars>>

NextFixAuthMountPath == ApplyFixAuthMountPath

SpecFixAuthMountPath == InitFixAuthMountPath /\ [][NextFixAuthMountPath]_vars

-----------------------------------------------------------------------------
(* The adapter against a service: construction, then reads, writes and     *)
(* lists through the handle, while the service's mount table may change.   *)

KV(version) == [Type |-> "kv", Options |-> [version |-> version]]
KVNoVersion == [Type |-> "kv", Options |-> EmptyMap]
Generic == [Type |-> "generic", Options |-> EmptyMap]
Cubbyhole == [Type |-> "cubbyhole", Options |-> EmptyMap]

\* Mount tables of a service: a mount one segment deep, one two segments deep,
\* and a mount that is no KV engine. No mount lies under another one.
InitTables ==
    {("s/" :> KV("1")) @@ ("n/k/" :> KV("2")) @@ ("c/" :> Cubbyhole),
     ("s/" :> KV("2")) @@ ("n/k/" :> KV("1")) @@ ("c/" :> Cubbyhole),
     ("s/" :> Generic) @@ ("n/k/" :> KV("3")) @@ ("c/" :> Cubbyhole),
     ("s/" :> KVNoVersion) @@ ("n/k/" :> KV("x")) @@ ("c/" :> Cubbyhole)}

RetunedTo == {KV("1"), KV("2")}

NewPaths == {"s/", "s/t/a", "n/k/", "n/k/t", "c/", "q/", "s", "/s", "/s/", ""}

\* Caller paths, relative to the handle's mount.
ReadRel == {"", "t", "t/a", "t/b", "data/t/a", "metadata/t/a"}
WriteRel == {"t", "t/a", "t/b", "data/t/a", "metadata/t/a"}
ListRel == {"", "t", "t/", "t/a", "data/t", "metadata/t"}
LifetimeRel == {"t", "t/a"}

M1 == [Penguin |-> Str("Oswald")]
M2 == [TwoFace |-> Str("Harvey"), PoisonIvy |-> Str("Pamela")]
FieldMaps == {M1, M2}

Tokens == {"root"}

Init ==
    /\ mounts \in InitTables
    /\ secrets = <<>>
    /\ client = NoClient
    /\ token = ""
    /\ listMountsCalls = 0
    /\ written = {}
    /\ last = NoCall
    /\ fnIn = [fn |-> "none"]
    /\ fnOut = <<>>
    /\ K8sIdle

\* A panic ends the program.
Running == ~last.panic

\* Every way New(c, p) can end against the mount table mts: the handle, the
\* error, and how often it queried the mount table.
NewResults(mts, p) ==
    IF NewPathError(p) # ""
    THEN {[client |-> NoClient, err |-> NewPathError(p), queries |-> 0]}
    ELSE {[client |-> NoClient, err |-> TransportError, queries |-> 1]}
         \cup {[client |-> IF r.err = "" THEN Client(r.version, r.mount) ELSE NoClient,
                err |-> r.err,
                queries |-> 1] : r \in getVersionAndMount(mts, p)}

\* kv.go New: no check of the path.
NewInitialResults(mts, p) ==
    {[client |-> NoClient, err |-> TransportError, queries |-> 1]}
    \cup {[client |-> IF r.err = "" THEN Client(r.version, "") ELSE NoClient,
           err |-> r.err,
           queries |-> 1] : r \in getVersionInitial(mts, p)}

\* The naive variant's New: the path must contain a "/".
NewNaiveResults(mts, p) ==
    IF ~ContainsRune(p, "/")
    THEN {[client |-> NoClient,
           err |-> "path " \o p \o " must contain at least one '/'",
           queries |-> 0]}
    ELSE {[client |-> NoClient, err |-> TransportError, queries |-> 1]}
         \cup {[client |-> IF r.err = "" THEN Client(r.version, "") ELSE NoClient,
                err |-> r.err,
                queries |-> 1] : r \in getVersionNaive(mts, p)}

\* A call of one variant's New ends in one of the results given.
Constructed(op, p, results) ==
    /\ \E r \in results :
          /\ listMountsCalls + r.queries <= MaxListMounts
          /\ client' = r.client
          /\ listMountsCalls' = listMountsCalls + r.queries
          /\ last' = Call(op, p, Nil, "", Nil, r.err = TransportError,
                          Returned(Nil, Nil, r.err))
    /\ UNCHANGED <<mounts, secrets, token, written, fnIn, fnOut, k8sVars>>

NewInitial(p) ==
    /\ Running
    /\ client = NoClient
    /\ Constructed("NewInitial", p, NewInitialResults(mounts, p))

NewNaive(p) ==
    /\ Running
    /\ client = NoClient
    /\ Constructed("NewNaive", p, NewNaiveResults(mounts, p))

New(p) ==
    /\ Running
    /\ client = NoClient
    /\ Constructed("New", p, NewResults(mounts, p))

\* Variant: Read detects revision and mount again before it reads.
Read_DetectsAgain(p) ==
    /\ Running
    /\ client # NoClient
    /\ listMountsCalls < MaxListMounts
    /\ \E d \in getVersionAndMount(mounts, p), failed \in BOOLEAN :
          LET c == IF d.err = "" THEN Client(d.version, d.mount) ELSE client
              wire == ReadWire(c, p)
              r == IF failed THEN CallError(TransportError) ELSE LogicalRead(wire)
          IN  /\ client' = c
              /\ listMountsCalls' = listMountsCalls + 1
              /\ last' = Call("Read", p, Nil, wire, Nil, failed, ReadReturn(c, r))
    /\ UNCHANGED <<mounts, secrets, token, written, fnIn, fnOut, k8sVars>>

Read(p) ==
    /\ Running
    /\ client # NoClient
    /\ \E failed \in BOOLEAN :
          LET wire == ReadWire(client, p)
              r == IF failed THEN CallError(TransportError) ELSE LogicalRead(wire)
          IN  last' = Call("Read", p, Nil, wire, Nil, failed, ReadReturn(client, r))
    /\ UNCHANGED <<mounts, secrets, client, token, listMountsCalls, written,
                   fnIn, fnOut, k8sVars>>

Write(p, data) ==
    /\ Running
    /\ client # NoClient
    /\ p \in written \/ Cardinality(written) < MaxWritten
    /\ \E failed \in BOOLEAN :
          LET wire == WriteWire(client, p)
              body == WriteBody(client, data)
              w == IF failed THEN [store |-> secrets, err |-> TransportError]
                   ELSE LogicalWrite(wire, body)
          IN  /\ secrets' = w.store
              /\ written' = IF w.err = "" THEN written \cup {p} ELSE written
              /\ last' = Call("Write", p, <<data>>, wire, <<body>>, failed,
                              WriteReturn(client, CallError(w.err)))
    /\ UNCHANGED <<mounts, client, token, listMountsCalls, fnIn, fnOut, k8sVars>>

List(p) ==
    /\ Running
    /\ client # NoClient
    /\ \E failed \in BOOLEAN :
          LET wire == ListWire(client, p)
              r == IF failed THEN CallError(TransportError) ELSE LogicalList(wire)
          IN  last' = Call("List", p, Nil, wire, Nil, failed, ListReturn(client, r))
    /\ UNCHANGED <<mounts, secrets, client, token, listMountsCalls, written,
                   fnIn, fnOut, k8sVars>>

SetToken(v) ==
    /\ Running
    /\ client # NoClient
    /\ token' = v
    /\ last' = Call("SetToken", v, Nil, "", Nil, FALSE, Returned(Nil, Nil, ""))
    /\ UNCHANGED <<mounts, secrets, client, listMountsCalls, written, fnIn, fnOut, k8sVars>>

\* The service's operator unmounts the mount the handle was built on, or mounts
\* an engine anew at its prefix; either way the secrets under it are gone.
MountTableChange ==
    /\ Running
    /\ client # NoClient
    /\ LET k == client.Mount
       IN  /\ \/ /\ k \in DOMAIN mounts
                 /\ mounts' = [x \in DOMAIN mounts \ {k} |-> mounts[x]]
              \/ \E m \in RetunedTo :
                    /\ k \in DOMAIN mounts => mounts[k] # m
                    /\ mounts' = [x \in DOMAIN mounts \cup {k} |->
                                     IF x = k THEN m ELSE mounts[x]]
           /\ secrets' = [x \in {y \in DOMAIN secrets : ~HasPrefix(y, k)} |-> secrets[x]]
           /\ written' = {x \in written : ~HasPrefix(x, k)}
    /\ last' = Call("MountTableChange", "", Nil, "", Nil, FALSE, Returned(Nil, Nil, ""))
    /\ UNCHANGED <<client, token, listMountsCalls, fnIn, fnOut, k8sVars>>

\* Construction and calls over the caller paths, against a fixed mount table.
Next ==
    \/ \E p \in NewPaths : New(p)
    \/ \E r \in ReadRel : Read(client.Mount \o r)
    \/ \E r \in WriteRel, data \in FieldMaps : Write(client.Mount \o r, data)
    \/ \E r \in ListRel : List(client.Mount \o r)

Spec == Init /\ [][Next]_vars

\* The handle's lifetime: calls and SetToken while the mount table changes.
NextLifetime ==
    \/ \E p \in NewPaths : New(p)
    \/ \E r \in LifetimeRel : Read(client.Mount \o r)
    \/ \E r \in LifetimeRel : Write(client.Mount \o r, M1)
    \/ \E r \in LifetimeRel : List(client.Mount \o r)
    \/ \E v \in Tokens : SetToken(v)
    \/ MountTableChange

SpecLifetime == Init /\ [][NextLifetime]_vars

\* Construction alone, by each of the three variants of New.
NextNew ==
    \/ \E p \in NewPaths : NewInitial(p)
    \/ \E p \in NewPaths : NewNaive(p)
    \/ \E p \in NewPaths : New(p)

SpecNew == Init /\ [][NextNew]_vars

-----------------------------------------------------------------------------
(* package k8s: what it uses of os, io/ioutil, strconv, time, bytes and of *)
(* github.com/pkg/errors.                                                  *)

\* os.Getenv: the value of an unset variable is "".
Getenv(env, name) == IF name \in DOMAIN env THEN env[name] ELSE ""

\* errors.Wrap(err, msg).Error()
Wrap(err, msg) == msg \o ": " \o err

\* strconv.Quote of a string without characters to escape.
Quote(s) == "\"" \o s \o "\""

\* strconv.ParseBool
ParseBool(str) ==
    IF str \in {"1", "t", "T", "TRUE", "true", "True"}
    THEN [val |-> TRUE, err |-> ""]
    ELSE IF str \in {"0", "f", "F", "FALSE", "false", "False"}
    THEN [val |-> FALSE, err |-> ""]
    ELSE [val |-> FALSE,
          err |-> "strconv.ParseBool: parsing " \o Quote(str) \o ": invalid syntax"]

\* The length of the longest prefix of s made of decimal digits.
RECURSIVE LeadingDigits(_)
LeadingDigits(s) ==
    IF s # "" /\ IsDigit(Char(s, 1))
    THEN 1 + LeadingDigits(SubSeq(s, 2, Len(s)))
    ELSE 0

\* The length of the longest prefix of s without a digit: a unit.
RECURSIVE LeadingUnit(_)
LeadingUnit(s) ==
    IF s # "" /\ ~IsDigit(Char(s, 1))
    THEN 1 + LeadingUnit(SubSeq(s, 2, Len(s)))
    ELSE 0

\* Milliseconds of the units of time.ParseDuration that are whole
\* milliseconds.
UnitMillis == [ms |-> 1, s |-> 1000, m |-> 60000, h |-> 3600000]

\* The (number unit)+ part of the duration string orig: [ms, err].
RECURSIVE ParseTerms(_, _)
ParseTerms(s, orig) ==
    LET n == LeadingDigits(s)
        rest == SubSeq(s, n + 1, Len(s))
        u == LeadingUnit(rest)
        unit == SubSeq(rest, 1, u)
        tail == SubSeq(rest, u + 1, Len(rest))
    IN  IF n = 0 THEN [ms |-> 0, err |-> "time: invalid duration " \o orig]
        ELSE IF u = 0 THEN [ms |-> 0, err |-> "time: missing unit in duration " \o orig]
        ELSE IF unit \notin DOMAIN UnitMillis
        THEN [ms |-> 0, err |-> "time: unknown unit " \o unit \o " in duration " \o orig]
        ELSE LET here == ParseDigits(SubSeq(s, 1, n), 0) * UnitMillis[unit]
             IN  IF tail = "" THEN [ms |-> here, err |-> ""]
                 ELSE LET more == ParseTerms(tail, orig)
                      IN  [ms |-> IF more.err = "" THEN here + more.ms ELSE 0,
                           err |-> more.err]

\* time.ParseDuration on strings of whole numbers with the units ms, s, m, h
\* and an optional sign: [ms, err].
ParseDuration(orig) ==
    LET neg == orig # "" /\ Char(orig, 1) = "-"
        signed == orig # "" /\ Char(orig, 1) \in {"-", "+"}
        s == IF signed THEN SubSeq(orig, 2, Len(orig)) ELSE orig
    IN  IF s = "0" THEN [ms |-> 0, err |-> ""]
        ELSE IF s = "" THEN [ms |-> 0, err |-> "time: invalid duration " \o orig]
        ELSE LET t == ParseTerms(s, orig)
             IN  [ms |-> IF neg THEN 0 - t.ms ELSE t.ms, err |-> t.err]

\* Variant: the duration is not converted to seconds.
Seconds_Unconverted(ms) == ms

\* int(d.Seconds()): the conversion truncates toward zero.
Seconds(ms) == IF ms >= 0 THEN ms \div 1000 ELSE 0 - ((0 - ms) \div 1000)

IsSpace(c) == c \in {" ", "\t", "\n", "\r"}

RECURSIVE TrimSpaceLeft(_)
TrimSpaceLeft(s) ==
    IF s # "" /\ IsSpace(Char(s, 1))
    THEN TrimSpaceLeft(SubSeq(s, 2, Len(s)))
    ELSE s

RECURSIVE TrimSpaceRight(_)
TrimSpaceRight(s) ==
    IF s # "" /\ IsSpace(Char(s, Len(s)))
    THEN TrimSpaceRight(SubSeq(s, 1, Len(s) - 1))
    ELSE s

\* bytes.TrimSpace
TrimSpace(s) == TrimSpaceRight(TrimSpaceLeft(s))

\* ioutil.ReadFile: [content, err].
ReadFile(files, name) ==
    IF name \in DOMAIN files
    THEN [content |-> files[name], err |-> ""]
    ELSE [content |-> "", err |-> "open " \o name \o ": no such file or directory"]

\* The directories that exist; a file is created only in one of them.
DirExists(name) == HasPrefix(name, "/tmp/") \/ HasPrefix(name, "/var/run/")

\* ioutil.WriteFile: [files, err].
WriteFile(files, name, data) ==
    IF DirExists(name)
    THEN [files |-> [n \in DOMAIN files \cup {name} |->
                        IF n = name THEN data ELSE files[n]],
          err |-> ""]
    ELSE [files |-> files,
          err |-> "open " \o name \o ": no such file or directory"]

-----------------------------------------------------------------------------
(* package k8s: NewFromEnvironment.                                        *)

AuthMountPath == "auth/kubernetes"
ServiceAccountTokenPath == "/var/run/secrets/kubernetes.io/serviceaccount/token"

BoolValues ==
    "1, t, T, TRUE, true, True, 0, f, F, FALSE, false, False are valid values for ALLOW_FAIL"

Vault(role, tokenPath, reAuth, ttl, authMountPath, saTokenPath, allowFail) ==
    [nil |-> FALSE, Role |-> role, TokenPath |-> tokenPath, ReAuth |-> reAuth,
     TTL |-> ttl, AuthMountPath |-> authMountPath,
     ServiceAccountTokenPath |-> saTokenPath, AllowFail |-> allowFail]

\* What the client library does with the environment: "" when it built a
\* client, else the error of ReadEnvironment or of NewClient.
ClientErrors ==
    {"", "failed to read environment for vault: strconv.ParseBool: parsing \"x\": invalid syntax",
     "failed to create vault client: parse :: missing protocol scheme"}

\* NewFromEnvironment on the environment env, the client library answering
\* clientErr: [vault, err].
NewFromEnvironmentReturn(env, clientErr) ==
    LET tokenPath == Getenv(env, "VAULT_TOKEN_PATH")
        sReAuth == Getenv(env, "VAULT_REAUTH")
        reAuth == ParseBool(sReAuth)
        sTTL == Getenv(env, "VAULT_TTL")
        d == ParseDuration(sTTL)
        p == Getenv(env, "VAULT_AUTH_MOUNT_PATH")
        sa == Getenv(env, "SERVICE_ACCOUNT_TOKEN_PATH")
        sAllowFail == Getenv(env, "ALLOW_FAIL")
        allowFail == ParseBool(sAllowFail)
        failed(e) == [vault |-> NoVault, err |-> e]
    IN  IF tokenPath = "" THEN failed("missing VAULT_TOKEN_PATH")
        ELSE IF sReAuth # "" /\ reAuth.err # ""
        THEN failed(Wrap(reAuth.err, BoolValues))
        ELSE IF sTTL # "" /\ d.err # ""
        THEN failed(Wrap(d.err, sTTL \o " is not a valid duration for VAULT_TTL"))
        ELSE IF sAllowFail # "" /\ allowFail.err # ""
        THEN failed(Wrap(allowFail.err, BoolValues))
        ELSE IF clientErr # "" THEN failed(clientErr)
        ELSE [vault |-> Vault(Getenv(env, "VAULT_ROLE"),
                              tokenPath,
                              IF sReAuth # "" THEN reAuth.val ELSE FALSE,
                              IF sTTL # "" THEN Seconds(d.ms) ELSE 0,
                              IF p # "" THEN FixAuthMountPath(p)
                                        ELSE FixAuthMountPath(AuthMountPath),
                              IF sa = "" THEN ServiceAccountTokenPath ELSE sa,
                              IF sAllowFail # "" THEN allowFail.val ELSE FALSE),
              err |-> ""]

-----------------------------------------------------------------------------
(* package k8s: Authenticate, StoreToken, LoadToken, GetToken.             *)

\* What vaultLogical(v.client).Write can return for the login: an error, no
\* secret at all, or a secret with warnings and with or without an Auth part.
LoginError(e) == [err |-> e, secret |-> Nil]
LoginSecret(warnings, auth) ==
    [err |-> "", secret |-> <<[Warnings |-> warnings, Auth |-> auth]>>]
SecretAuth(clientToken) == <<[ClientToken |-> clientToken]>>

\* Variant: warnings do not matter when the response carries a client token.
AuthenticateReturn_TokenWins(v, files, r) ==
    LET f == ReadFile(files, v.ServiceAccountTokenPath)
        jwt == TrimSpace(f.content)
        wire == PathJoin(<<FixAuthMountPath(v.AuthMountPath), "login">>)
        data == [role |-> v.Role, jwt |-> jwt]
        ret(t, e, p, sent) ==
            [token |-> t, err |-> e, panic |-> p,
             wire |-> IF sent THEN wire ELSE "",
             data |-> IF sent THEN <<data>> ELSE Nil]
    IN  IF f.err # "" THEN ret("", Wrap(f.err, "failed to read jwt token"), FALSE, FALSE)
        ELSE IF r.err # ""
        THEN ret("", Wrap(r.err, "login failed with role from environment variable VAULT_ROLE: "
                                  \o Quote(v.Role)), FALSE, TRUE)
        ELSE IF r.secret = Nil THEN ret("", "", TRUE, TRUE)
        ELSE IF r.secret[1].Auth # Nil
        THEN ret(r.secret[1].Auth[1].ClientToken, "", FALSE, TRUE)
        ELSE IF Len(r.secret[1].Warnings) > 0
        THEN ret("", "login failed with: " \o StringsJoin(r.secret[1].Warnings, " - "),
                 FALSE, TRUE)
        ELSE ret("", "", TRUE, TRUE)

\* Authenticate of v on the files given, the login answered by r:
\* [token, err, panic, wire, data].
AuthenticateReturn(v, files, r) ==
    LET f == ReadFile(files, v.ServiceAccountTokenPath)
        jwt == TrimSpace(f.content)
        wire == PathJoin(<<FixAuthMountPath(v.AuthMountPath), "login">>)
        data == [role |-> v.Role, jwt |-> jwt]
        ret(t, e, p, sent) ==
            [token |-> t, err |-> e, panic |-> p,
             wire |-> IF sent THEN wire ELSE "",
             data |-> IF sent THEN <<data>> ELSE Nil]
    IN  IF f.err # "" THEN ret("", Wrap(f.err, "failed to read jwt token"), FALSE, FALSE)
        ELSE IF r.err # ""
        THEN ret("", Wrap(r.err, "login failed with role from environment variable VAULT_ROLE: "
                                  \o Quote(v.Role)), FALSE, TRUE)
        ELSE IF r.secret = Nil THEN ret("", "", TRUE, TRUE)
        ELSE IF Len(r.secret[1].Warnings) > 0
        THEN ret("", "login failed with: " \o StringsJoin(r.secret[1].Warnings, " - "),
                 FALSE, TRUE)
        ELSE IF r.secret[1].Auth = Nil THEN ret("", "", TRUE, TRUE)
        ELSE ret(r.secret[1].Auth[1].ClientToken, "", FALSE, TRUE)

\* StoreToken: [files, err].
StoreTokenReturn(v, files, t) ==
    LET w == WriteFile(files, v.TokenPath, t)
    IN  IF w.err # ""
        THEN [files |-> files, err |-> Wrap(w.err, "failed to store token")]
        ELSE [files |-> w.files, err |-> ""]

\* Variant: an empty token file is an empty token.
LoadTokenReturn_EmptyIsToken(v, files) ==
    LET f == ReadFile(files, v.TokenPath)
    IN  IF f.err # "" THEN [token |-> "", err |-> Wrap(f.err, "failed to load token")]
        ELSE [token |-> f.content, err |-> ""]

\* LoadToken: [token, err].
LoadTokenReturn(v, files) ==
    LET f == ReadFile(files, v.TokenPath)
    IN  IF f.err # "" THEN [token |-> "", err |-> Wrap(f.err, "failed to load token")]
        ELSE IF Len(f.content) = 0 THEN [token |-> "", err |-> "found empty token"]
        ELSE [token |-> f.content, err |-> ""]

\* Variant: a failed RenewSelf is returned whatever ReAuth is.
GetTokenReturn_NoReAuthOnRenew(v, files, bearer, renewErr, r) ==
    LET l == LoadTokenReturn(v, files)
        a == AuthenticateReturn(v, files, r)
        ret(t, e, p, b, auths, renews) ==
            [token |-> t, err |-> e, panic |-> p, bearer |-> b,
             authenticateCalls |-> auths, renewCalls |-> renews,
             loadErr |-> l.err]
    IN  IF l.err # ""
        THEN IF v.ReAuth
             THEN ret(a.token, a.err, a.panic, bearer, 1, 0)
             ELSE ret("", Wrap(l.err, "failed to load token form: " \o v.TokenPath),
                      FALSE, bearer, 0, 0)
        ELSE IF renewErr # ""
        THEN ret("", Wrap(renewErr, "failed to renew token"), FALSE, l.token, 0, 1)
        ELSE ret(l.token, "", FALSE, l.token, 0, 1)

\* GetToken of v, the bearer token of its client being bearer, RenewSelf
\* answering renewErr and the login r: what it returns, the bearer token it
\* leaves on the client, and the calls it made.
GetTokenReturn(v, files, bearer, renewErr, r) ==
    LET l == LoadTokenReturn(v, files)
        a == AuthenticateReturn(v, files, r)
        ret(t, e, p, b, auths, renews) ==
            [token |-> t, err |-> e, panic |-> p, bearer |-> b,
             authenticateCalls |-> auths, renewCalls |-> renews,
             loadErr |-> l.err]
    IN  IF l.err # ""
        THEN IF v.ReAuth
             THEN ret(a.token, a.err, a.panic, bearer, 1, 0)
             ELSE ret("", Wrap(l.err, "failed to load token form: " \o v.TokenPath),
                      FALSE, bearer, 0, 0)
        ELSE IF renewErr # ""
        THEN IF v.ReAuth
             THEN ret(a.token, a.err, a.panic, l.token, 1, 1)
             ELSE ret("", Wrap(renewErr, "failed to renew token"), FALSE, l.token, 0, 1)
        ELSE ret(l.token, "", FALSE, l.token, 0, 1)

-----------------------------------------------------------------------------
(* The k8s package as a state machine: the process environment is fixed    *)
(* at the start, NewFromEnvironment builds the configuration once, and its *)
(* methods are then called in any order.                                   *)

kvRest == <<mounts, secrets, client, listMountsCalls, written, last>>

\* One call of the k8s package: its argument, what the collaborators answered
\* and what it returned.
K8sCall(op, arg, token_, err, panic, more) ==
    [op |-> op, arg |-> arg, token |-> token_, err |-> err, panic |-> panic,
     more |-> more]

TokenFile == "/tmp/vault-token"
NoTokenDir == "/not/existing/path"
SAFile == "/tmp/sa-token"

\* The environments of the test cases: the token file in a directory that is
\* there or not, re-authentication on or off, VAULT_TOKEN set or not.
AuthEnvs ==
    {[n \in {"VAULT_ROLE", "VAULT_TOKEN_PATH", "SERVICE_ACCOUNT_TOKEN_PATH"} \cup extra
        |-> CASE n = "VAULT_ROLE" -> "role"
              [] n = "VAULT_TOKEN_PATH" -> tp
              [] n = "SERVICE_ACCOUNT_TOKEN_PATH" -> SAFile
              [] n = "VAULT_REAUTH" -> "true"
              [] n = "VAULT_TOKEN" -> "root"] :
        tp \in {TokenFile, NoTokenDir},
        extra \in SUBSET {"VAULT_REAUTH", "VAULT_TOKEN"}}

\* The files at the start: the persisted token missing, empty or there, the
\* service account token missing or there.
AuthFiles ==
    {[n \in names |-> IF n = TokenFile THEN t ELSE " jwt\n"] :
        names \in SUBSET {TokenFile, SAFile}, t \in {"", "t0"}}

StoredTokens == {"", "t1"}

LoginToken == "s.login"

LoginAnswers ==
    {LoginError("permission denied"),
     [err |-> "", secret |-> Nil],
     LoginSecret(<<>>, Nil),
     LoginSecret(<<>>, SecretAuth(LoginToken)),
     LoginSecret(<<"warning">>, Nil),
     LoginSecret(<<"warning">>, SecretAuth(LoginToken))}

RenewErrors == {"", "permission denied"}

InitAuth ==
    /\ KvIdle
    /\ fnIn = [fn |-> "none"]
    /\ fnOut = <<>>
    /\ vault = NoVault
    /\ environ \in AuthEnvs
    /\ fs \in AuthFiles
    /\ called = NoK8sCall

K8sRunning == ~called.panic

NewFromEnvironment ==
    /\ K8sRunning
    /\ vault = NoVault
    /\ called.op = "none"
    /\ \E clientErr \in ClientErrors :
          LET r == NewFromEnvironmentReturn(environ, clientErr)
          IN  /\ vault' = r.vault
              /\ token' = IF r.err = "" THEN Getenv(environ, "VAULT_TOKEN") ELSE token
              /\ called' = K8sCall("NewFromEnvironment", "", "", r.err, FALSE,
                                   [clientErr |-> clientErr])
    /\ UNCHANGED <<kvRest, fnIn, fnOut, environ, fs>>

Authenticate ==
    /\ K8sRunning
    /\ vault # NoVault
    /\ \E r \in LoginAnswers :
          LET a == AuthenticateReturn(vault, fs, r)
          IN  called' = K8sCall("Authenticate", "", a.token, a.err, a.panic,
                                [login |-> r, wire |-> a.wire, data |-> a.data])
    /\ UNCHANGED <<kvRest, fnIn, fnOut, environ, fs, vault, token>>

StoreToken(t) ==
    /\ K8sRunning
    /\ vault # NoVault
    /\ LET w == StoreTokenReturn(vault, fs, t)
       IN  /\ fs' = w.files
           /\ called' = K8sCall("StoreToken", t, "", w.err, FALSE, <<>>)
    /\ UNCHANGED <<kvRest, fnIn, fnOut, environ, vault, token>>

LoadToken ==
    /\ K8sRunning
    /\ vault # NoVault
    /\ LET l == LoadTokenReturn(vault, fs)
       IN  called' = K8sCall("LoadToken", "", l.token, l.err, FALSE, <<>>)
    /\ UNCHANGED <<kvRest, fnIn, fnOut, environ, fs, vault, token>>

UseToken(t) ==
    /\ K8sRunning
    /\ vault # NoVault
    /\ token' = t
    /\ called' = K8sCall("UseToken", t, "", "", FALSE, <<>>)
    /\ UNCHANGED <<kvRest, fnIn, fnOut, environ, fs, vault>>

\* Variant: the token of a successful re-authentication is stored.
GetToken_StoresReAuth ==
    /\ K8sRunning
    /\ vault # NoVault
    /\ \E renewErr \in RenewErrors, r \in LoginAnswers :
          LET g == GetTokenReturn(vault, fs, token, renewErr, r)
              stored == g.authenticateCalls = 1 /\ g.err = "" /\ ~g.panic
          IN  /\ token' = g.bearer
              /\ fs' = IF stored THEN StoreTokenReturn(vault, fs, g.token).files
                                 ELSE fs
              /\ called' = K8sCall("GetToken", "", g.token, g.err, g.panic,
                                   [loadErr |-> g.loadErr,
                                    renewErr |-> IF g.renewCalls = 1 THEN renewErr ELSE "",
                                    login |-> IF g.authenticateCalls = 1
                                              THEN <<r>> ELSE Nil,
                                    authenticateCalls |-> g.authenticateCalls,
                                    renewCalls |-> g.renewCalls])
    /\ UNCHANGED <<kvRest, fnIn, fnOut, environ, vault>>

GetToken ==
    /\ K8sRunning
    /\ vault # NoVault
    /\ \E renewErr \in RenewErrors, r \in LoginAnswers :
          LET g == GetTokenReturn(vault, fs, token, renewErr, r)
          IN  /\ token' = g.bearer
              /\ called' = K8sCall("GetToken", "", g.token, g.err, g.panic,
                                   [loadErr |-> g.loadErr,
                                    renewErr |-> IF g.renewCalls = 1 THEN renewErr ELSE "",
                                    login |-> IF g.authenticateCalls = 1
                                              THEN <<r>> ELSE Nil,
                                    authenticateCalls |-> g.authenticateCalls,
                                    renewCalls |-> g.renewCalls])
    /\ UNCHANGED <<kvRest, fnIn, fnOut, environ, fs, vault>>

\* NewRenewer: the token is set, then RenewSelf and the library's NewRenewer
\* are called; renewerErr is the answer of the second.
NewRenewer(t) ==
    /\ K8sRunning
    /\ vault # NoVault
    /\ token' = t
    /\ \E renewErr \in RenewErrors, renewerErr \in {"", "secret is required"} :
          called' = K8sCall("NewRenewer", t, "",
                            IF renewErr # ""
                            THEN Wrap(renewErr, "failed to renew-self token")
                            ELSE IF renewerErr # ""
                            THEN Wrap(renewerErr, "failed to get token renewer")
                            ELSE "",
                            FALSE, [renewErr |-> renewErr])
    /\ UNCHANGED <<kvRest, fnIn, fnOut, environ, fs, vault>>

NextAuth ==
    \/ NewFromEnvironment
    \/ Authenticate
    \/ \E t \in StoredTokens : StoreToken(t)
    \/ LoadToken
    \/ \E t \in StoredTokens : UseToken(t)
    \/ GetToken
    \/ \E t \in StoredTokens : NewRenewer(t)

SpecAuth == InitAuth /\ [][NextAuth]_vars

-----------------------------------------------------------------------------
(* NewFromEnvironment alone, on the environments a deployment can set.     *)

EnvValues ==
    [VAULT_ROLE |-> {"", "role"},
     VAULT_TOKEN_PATH |-> {"", TokenFile},
     VAULT_REAUTH |-> {"", "true", "0", "yes"},
     VAULT_TTL |-> {"", "1h", "90s", "1h30m", "1500ms", "-1500ms", "10", "1d"},
     VAULT_AUTH_MOUNT_PATH |-> {"", "/kubernetes/"},
     SERVICE_ACCOUNT_TOKEN_PATH |-> {"", SAFile},
     ALLOW_FAIL |-> {"", "T", "False", "no"}]

\* os.Getenv gives "" for a variable that is not set and for one set to "":
\* the environments set every variable, some to "", and one sets none.
Environments ==
    {[n \in DOMAIN EnvValues |-> e[n]] :
        e \in [VAULT_ROLE : EnvValues.VAULT_ROLE,
               VAULT_TOKEN_PATH : EnvValues.VAULT_TOKEN_PATH,
               VAULT_REAUTH : EnvValues.VAULT_REAUTH,
               VAULT_TTL : EnvValues.VAULT_TTL,
               VAULT_AUTH_MOUNT_PATH : EnvValues.VAULT_AUTH_MOUNT_PATH,
               SERVICE_ACCOUNT_TOKEN_PATH : EnvValues.SERVICE_ACCOUNT_TOKEN_PATH,
               ALLOW_FAIL : EnvValues.ALLOW_FAIL]}
    \cup {[n \in {} |-> ""]}

InitEnv ==
    /\ KvIdle
    /\ fnIn = [fn |-> "none"]
    /\ fnOut = <<>>
    /\ vault = NoVault
    /\ environ \in Environments
    /\ fs = <<>>
    /\ called = NoK8sCall

NextEnv == NewFromEnvironment

SpecEnv == InitEnv /\ [][NextEnv]_vars

-----------------------------------------------------------------------------
(* C2: path rewriting is idempotent.                                       *)

WithSlash(mount) == IF HasSuffix(mount, "/") THEN mount ELSE mount \o "/"

\* path has the sub-path segment directly after the mount.
AlreadyFixed(path, mount, prefix) ==
    \/ path = WithSlash(mount) \o prefix
    \/ HasPrefix(path, WithSlash(mount) \o prefix \o "/")

\* C2: FixPath(FixPath(path, mount, prefix), mount, prefix) equals
\* FixPath(path, mount, prefix) for every path, mount and sub-path name, and a
\* path that already has the sub-path segment directly after the mount is
\* returned unchanged, whether or not the mount argument ends in "/".
C2_FixPathIdempotent ==
    fnIn.fn = "FixPath" =>
        /\ Len(fnOut) = 2 => fnOut[2] = fnOut[1]
        /\ (Len(fnOut) >= 1 /\ AlreadyFixed(fnIn.path, fnIn.mount, fnIn.prefix))
               => fnOut[1] = fnIn.path

\* A nested mount given without its trailing "/", a path under it that was
\* rewritten, and the rewritten path passed through FixPath again.
C2_Witness ==
    /\ fnIn.fn = "FixPath"
    /\ Len(fnOut) = 2
    /\ fnIn.mount = "s/s"
    /\ fnIn.path = "s/s/metadata"
    /\ fnIn.prefix = ReadPrefix
    /\ fnOut[1] = "s/s/data/metadata"

-----------------------------------------------------------------------------
(* C10: FixAuthMountPath.                                                  *)

Segments(p) == Split(p, "/")

HasDotDot(p) == \E i \in 1..Len(Segments(p)) : Segments(p)[i] = ".."

KeepSeg(e) == e # "" /\ e # "."

\* "auth" followed by the segments of p that are neither empty nor ".", a
\* leading "auth" of p not repeated.
AuthPathOf(p) ==
    LET kept == SelectSeq(Segments(p), KeepSeg)
    IN  IF Segments(TrimLeft(p, "/"))[1] = "auth"
        THEN StringsJoin(kept, "/")
        ELSE StringsJoin(<<"auth">> \o kept, "/")

AuthFirstNoSlashes(r) ==
    /\ Segments(r)[1] = "auth"
    /\ ~HasPrefix(r, "/")
    /\ ~HasSuffix(r, "/")

AuthExamples ==
    /\ fnIn.path \in {"kubernetes", "/kubernetes/", "auth/kubernetes", "/auth/kubernetes"}
           => fnOut[1] = "auth/kubernetes"
    /\ fnIn.path = "kubernetes/something" => fnOut[1] = "auth/kubernetes/something"

\* C10 as stated: for every input the result of FixAuthMountPath has "auth" as
\* its first segment and neither a leading nor a trailing "/".
C10_EveryInput ==
    (fnIn.fn = "FixAuthMountPath" /\ Len(fnOut) = 1) => AuthFirstNoSlashes(fnOut[1])

\* C10, amended: for every input that has no ".." segment, FixAuthMountPath
\* returns "auth" followed by the input's segments other than empty and "."
\* ones (a leading "auth" is not repeated); that result has "auth" as its first
\* segment and no leading or trailing "/"; the examples of the claim hold.
C10_FixAuthMountPath ==
    (fnIn.fn = "FixAuthMountPath" /\ Len(fnOut) = 1) =>
        /\ AuthExamples
        /\ ~HasDotDot(fnIn.path) =>
               /\ fnOut[1] = AuthPathOf(fnIn.path)
               /\ AuthFirstNoSlashes(fnOut[1])

\* A path with a leading "/" whose first segment is already "auth".
C10_Witness ==
    /\ fnIn.fn = "FixAuthMountPath"
    /\ fnIn.path = "/auth/kubernetes"
    /\ fnOut = <<"auth/kubernetes">>

-----------------------------------------------------------------------------
(* C1: the wire paths.                                                     *)

FirstSegment(p) == Split(p, "/")[1]

\* C1: on a revision-2 handle, for every caller path under the handle's Mount
\* whose first segment below the mount is not already the sub-path name, Read
\* and Write hand the collaborator Mount + "data/" + (path relative to Mount)
\* and List hands it Mount + "metadata/" + (path relative to Mount); on a
\* revision-1 handle all three hand it the caller's path unchanged.
C1_WirePath ==
    (last.op \in {"Read", "Write", "List"} /\ HasPrefix(last.path, client.Mount)) =>
        LET rel == TrimPrefix(last.path, client.Mount)
            sub == IF last.op = "List" THEN "metadata" ELSE "data"
        IN  /\ (client.Version = 2 /\ FirstSegment(rel) # sub)
                   => last.wire = client.Mount \o sub \o "/" \o rel
            /\ client.Version = 1 => last.wire = last.path

\* A List through a revision-2 handle on a mount two segments deep.
C1_Witness ==
    /\ last.op = "List"
    /\ client = Client(2, "n/k/")
    /\ last.path = "n/k/data/t"
    /\ last.wire = "n/k/metadata/data/t"

-----------------------------------------------------------------------------
(* C3: round trip.                                                         *)

\* C3: a Write(p, m) that returned no error, followed at once by a Read(p)
\* through the same handle whose collaborator call does not fail, makes that
\* Read return a map equal to m and no error, on a revision-1 and on a
\* revision-2 engine.
C3_RoundTrip ==
    [][(/\ last.op = "Write"
        /\ last.err = ""
        /\ last'.op = "Read"
        /\ last'.path = last.path
        /\ ~last'.failed)
       => (last'.val = last.data /\ last'.err = "" /\ ~last'.panic)]_vars

\* A Read through a revision-2 handle that returned the second map written.
C3_Witness ==
    /\ last.op = "Read"
    /\ client.Version = 2
    /\ last.path \in written
    /\ last.wire # last.path
    /\ last.val = <<M2>>
    /\ last.err = ""

-----------------------------------------------------------------------------
(* C4: listing what was written.                                           *)

\* p names a secret directly under the folder q.
IsChild(p, q) ==
    /\ HasPrefix(p, WithSlash(q))
    /\ TrimPrefix(p, WithSlash(q)) # ""
    /\ ~ContainsRune(TrimPrefix(p, WithSlash(q)), "/")

BaseName(p) == Split(p, "/")[Len(Split(p, "/"))]

Range(f) == {f[i] : i \in DOMAIN f}

\* List returned exactly the bare names of the caller paths written so far.
ListsWritten ==
    /\ last.err = ""
    /\ ~last.panic
    /\ Len(last.keys) = 1
    /\ Len(last.keys[1]) = Cardinality(written)
    /\ Range(last.keys[1]) = {BaseName(p) : p \in written}

\* The secrets written through the handle, N >= 1 of them, all lie directly
\* under the prefix that was listed, and the List call reached the service.
ListedAfterWrites ==
    /\ last.op = "List"
    /\ ~last.failed
    /\ client.Version \in {1, 2}
    /\ written # {}
    /\ \A p \in written : IsChild(p, last.path)

\* C4 as stated: after N secrets were written under a common prefix, List on
\* that prefix returns exactly the N bare child names and no error, on a
\* revision-1 and on a revision-2 engine alike.
C4_ListAfterWrites == ListedAfterWrites => ListsWritten

\* C4 for the prefixes the tests use: the same, for a prefix whose first
\* segment below the mount is neither "data" nor "metadata".
C4_ListAfterWritesPlainPrefix ==
    (/\ ListedAfterWrites
     /\ FirstSegment(TrimPrefix(last.path, client.Mount)) \notin {"data", "metadata"})
        => ListsWritten

\* Two secrets written under a prefix on a revision-2 engine and listed.
C4_Witness ==
    /\ ListedAfterWrites
    /\ client.Version = 2
    /\ Cardinality(written) = 2
    /\ last.wire = "s/metadata/t"
    /\ ListsWritten

-----------------------------------------------------------------------------
(* C5, C6, C7: construction.                                               *)

\* C5: New returns a nil handle and an error, and does not query the mount
\* table, for every construction path that contains no "/" (the naive and the
\* mount-aware variant) and for every construction path that starts with "/"
\* (the mount-aware variant).
C5_RejectsBadPath ==
    [][(\/ /\ last'.op \in {"New", "NewNaive"}
           /\ ~ContainsRune(last'.path, "/")
        \/ /\ last'.op = "New"
           /\ HasPrefix(last'.path, "/"))
       => (/\ client' = NoClient
           /\ last'.err # ""
           /\ listMountsCalls' = listMountsCalls)]_vars

\* New was called with a path that starts with "/" and contains another "/".
C5_Witness ==
    /\ last.op = "New"
    /\ last.path = "/s/"
    /\ last.err = "path /s/ must not start with '/'"
    /\ listMountsCalls = 0
    /\ client = NoClient

Matching(p) == {k \in DOMAIN mounts : HasPrefix(p, k)}

\* C6: New (of each variant), called with a path its own checks of the path
\* let pass and having read the mount table, fails with "matching mount <mount> for path <path> is
\* not of type kv" when the matching mount is no key-value engine, and with
\* "failed to get mount for path: <path>" when no mount prefix matches; no
\* handle is returned in either case.
C6_MountErrors ==
    (/\ last.op \in {"New", "NewNaive", "NewInitial"}
     /\ ~last.failed
     /\ last.op # "NewInitial" => ContainsRune(last.path, "/")
     /\ last.op = "New" => ~HasPrefix(last.path, "/")) =>
        /\ (/\ Matching(last.path) # {}
            /\ \A k \in Matching(last.path) : mounts[k].Type \notin {"kv", "generic"})
               => /\ client = NoClient
                  /\ \E k \in Matching(last.path) :
                        last.err = "matching mount " \o k \o " for path "
                                   \o last.path \o " is not of type kv"
        /\ Matching(last.path) = {}
               => /\ client = NoClient
                  /\ last.err = "failed to get mount for path: " \o last.path

\* New was called on the prefix of a mount that is no key-value engine.
C6_Witness ==
    /\ last.op = "New"
    /\ last.path = "c/"
    /\ last.err = "matching mount c/ for path c/ is not of type kv"
    /\ client = NoClient

\* C7: the Version of every successfully constructed handle is 1 or 2 (New
\* fails when the version option of a "kv" mount is missing, non-numeric or a
\* number outside {1,2}).
C7_VersionOneOrTwo == client # NoClient => client.Version \in {1, 2}

-----------------------------------------------------------------------------
(* C8: nothing found.                                                      *)

\* C8: Read on a path at which the service holds no secret returns a nil map
\* and a nil error, List on a path that has no children returns a nil key list
\* and a nil error, and either returns an error only when the collaborator's
\* call itself failed.
C8_NotFoundIsNil ==
    /\ (last.op = "Read" /\ ~last.failed /\ LogicalRead(last.wire) = NoSecret)
           => (last.val = Nil /\ last.err = "" /\ ~last.panic)
    /\ (last.op = "List" /\ ~last.failed /\ LogicalList(last.wire) = NoSecret)
           => (last.keys = Nil /\ last.err = "" /\ ~last.panic)
    /\ (last.op \in {"Read", "List"} /\ last.err # "") => last.failed

\* List on the path of a leaf secret that was written before.
C8_Witness ==
    /\ last.op = "List"
    /\ ~last.failed
    /\ last.path \in written
    /\ last.path \in DOMAIN secrets
    /\ last.keys = Nil
    /\ last.err = ""

-----------------------------------------------------------------------------
(* C9: the handle's lifetime.                                              *)

\* C9: once New has returned a handle, no Read, Write, List or SetToken call and
\* no change of the service's mount table changes its Version or Mount or
\* queries the mount table again; the New that returned it queried the mount
\* table exactly once.
C9_FixedForLifetime ==
    [][/\ client # NoClient
           => (client' = client /\ listMountsCalls' = listMountsCalls)
       /\ (client = NoClient /\ client' # NoClient)
           => listMountsCalls' = listMountsCalls + 1]_vars

\* A revision-1 handle reads after its mount was mounted anew at revision 2 and
\* a token was set.
C9_Witness ==
    /\ client = Client(1, "s/")
    /\ "s/" \in DOMAIN mounts
    /\ mounts["s/"] = KV("2")
    /\ token = "root"
    /\ last.op = "Read"
    /\ listMountsCalls = 1

-----------------------------------------------------------------------------
(* package kv, naive variant: the two-argument FixPath, next to the        *)
(* mount-aware one.                                                        *)

\* Variant: the sub-path is inserted whether or not it is there already, as
\* in kv.go.
FixPathNaive_AlwaysInsert(p, prefix) ==
    LET pp == Split(p, "/")
    IN  [path |-> PathJoin(<<pp[1], prefix>> \o Tail(pp)), panic |-> FALSE]

\* FixPath(p, prefix) of the naive variant: [path, panic]; pp[1] of the source
\* is out of range for a path without "/".
FixPathNaive(p, prefix) ==
    LET pp == Split(p, "/")
    IN  IF Len(pp) < 2 THEN [path |-> "", panic |-> TRUE]
        ELSE IF pp[2] = prefix THEN [path |-> p, panic |-> FALSE]
        ELSE [path |-> PathJoin(<<pp[1], prefix>> \o Tail(pp)), panic |-> FALSE]

StrategyMounts == {"s/", "n/k/"}
StrategySegs == {"", "t", "data", ".", ".."}
StrategyPrefixes == {ReadPrefix, ListPrefix}

\* A path under a mount: the mount, then up to MaxSegs segments.
InitStrategies ==
    /\ KvIdle
    /\ K8sIdle
    /\ \E mount \in StrategyMounts, rel \in PathsUpTo(StrategySegs, MaxSegs),
          prefix \in StrategyPrefixes :
          fnIn = [fn |-> "Strategies", path |-> mount \o rel, mount |-> mount,
                  prefix |-> prefix]
    /\ fnOut = <<>>

\* Both strategies rewrite the same path.
ApplyStrategies ==
    /\ fnIn.fn = "Strategies"
    /\ Len(fnOut) = 0
    /\ fnOut' = <<FixPathNaive(fnIn.path, fnIn.prefix),
                  [path |-> FixPath(fnIn.path, fnIn.mount, fnIn.prefix),
                   panic |-> FALSE]>>
    /\ UNCHANGED <<fnIn, kvVars, k8sVars>>

NextStrategies == ApplyStrategies

SpecStrategies == InitStrategies /\ [][NextStrategies]_vars

-----------------------------------------------------------------------------
(* New against mount tables in which one mount prefix is a prefix of       *)
(* another.                                                                *)

NestedTables ==
    {("s/" :> KV("1")) @@ ("s/t/" :> KV("2")),
     ("s/" :> KV("2")) @@ ("s/t/" :> KV("2")),
     ("s/" :> Cubbyhole) @@ ("s/t/" :> KV("2")),
     ("s/" :> KV("2")) @@ ("s/t/" :> Generic),
     ("s/" :> KV("1")) @@ ("st/" :> KV("2"))}

InitNested ==
    /\ mounts \in NestedTables
    /\ secrets = <<>>
    /\ client = NoClient
    /\ token = ""
    /\ listMountsCalls = 0
    /\ written = {}
    /\ last = NoCall
    /\ fnIn = [fn |-> "none"]
    /\ fnOut = <<>>
    /\ K8sIdle

SpecNested == InitNested /\ [][NextNew]_vars

-----------------------------------------------------------------------------
(* Read and List against every answer the collaborator can give without an *)
(* error.                                                                  *)

Metadata == [deletion_time |-> Str("2019-10-01"), version |-> Str("1")]

\* The bodies of an answer: none, empty, a revision-1 secret, a revision-2
\* secret, a revision-2 secret whose version was deleted, metadata alone, a
\* listing, a listing without keys.
AnswerBodies ==
    {EmptyMap,
     M1,
     [data |-> Map(M1), metadata |-> Map(Metadata)],
     [data |-> Null, metadata |-> Map(Metadata)],
     [metadata |-> Map(Metadata)],
     [keys |-> ListOf(<<Str("a"), Str("b/")>>)],
     [keys |-> Null]}

Answers ==
    {NoSecret, [secret |-> <<[Data |-> Nil]>>, err |-> ""]}
    \cup {Secret(d) : d \in AnswerBodies}

AnsweredRel == {"t", "t/a"}

ReadAnswered(p) ==
    /\ Running
    /\ client # NoClient
    /\ \E r \in Answers :
          last' = Call("Read", p, Nil, ReadWire(client, p), Nil, FALSE,
                       ReadReturn(client, r))
    /\ UNCHANGED <<mounts, secrets, client, token, listMountsCalls, written,
                   fnIn, fnOut, k8sVars>>

ListAnswered(p) ==
    /\ Running
    /\ client # NoClient
    /\ \E r \in Answers :
          last' = Call("List", p, Nil, ListWire(client, p), Nil, FALSE,
                       ListReturn(client, r))
    /\ UNCHANGED <<mounts, secrets, client, token, listMountsCalls, written,
                   fnIn, fnOut, k8sVars>>

NextAnswers ==
    \/ \E p \in NewPaths : New(p)
    \/ \E r \in AnsweredRel : ReadAnswered(client.Mount \o r)
    \/ \E r \in AnsweredRel : ListAnswered(client.Mount \o r)

SpecAnswers == Init /\ [][NextAnswers]_vars

-----------------------------------------------------------------------------
(* C11: Authenticate and warnings.                                         *)

SAReadable == vault.ServiceAccountTokenPath \in DOMAIN fs

NoTokenButError == called.token = "" /\ called.err # "" /\ ~called.panic

\* C11: Authenticate returns the empty string and an error whenever the login
\* response carries a non-empty warning list, also when that response carries
\* a client token, and likewise when the service account token file cannot be
\* read or the login call fails.
C11_WarningsFail ==
    called.op = "Authenticate" =>
        LET r == called.more.login
        IN  /\ (SAReadable /\ r.err = "" /\ r.secret # Nil
                    /\ Len(r.secret[1].Warnings) > 0) => NoTokenButError
            /\ ~SAReadable => NoTokenButError
            /\ (SAReadable /\ r.err # "") => NoTokenButError

\* The login answered with a warning and a client token.
C11_Witness ==
    /\ called.op = "Authenticate"
    /\ called.more.login = LoginSecret(<<"warning">>, SecretAuth(LoginToken))
    /\ called.more.wire = "auth/kubernetes/login"
    /\ called.err = "login failed with: warning"
    /\ called.token = ""

-----------------------------------------------------------------------------
(* C12, C19: GetToken.                                                     *)

\* C12: GetToken with ReAuth false returns an empty token and an error that
\* carries the failure of LoadToken or of RenewSelf and does not call
\* Authenticate; with ReAuth true it calls Authenticate exactly once on either
\* failure and returns what that call returns; when loading and renewing both
\* succeed it returns the loaded token, no error, and does not call
\* Authenticate.
C12_GetToken ==
    called.op = "GetToken" =>
        LET m == called.more
            failed == m.loadErr # "" \/ m.renewErr # ""
        IN  /\ (~vault.ReAuth /\ m.loadErr # "")
                   => (/\ NoTokenButError
                       /\ HasSuffix(called.err, m.loadErr)
                       /\ m.authenticateCalls = 0)
            /\ (~vault.ReAuth /\ m.loadErr = "" /\ m.renewErr # "")
                   => (/\ NoTokenButError
                       /\ HasSuffix(called.err, m.renewErr)
                       /\ m.authenticateCalls = 0)
            /\ (vault.ReAuth /\ failed)
                   => (/\ m.authenticateCalls = 1
                       /\ LET a == AuthenticateReturn(vault, fs, m.login[1])
                          IN  /\ called.token = a.token
                              /\ called.err = a.err
                              /\ called.panic = a.panic)
            /\ ~failed
                   => (/\ called.token = fs[vault.TokenPath]
                       /\ called.token # ""
                       /\ called.err = ""
                       /\ m.authenticateCalls = 0)

\* The persisted token could not be renewed and the login gave a new one.
C12_Witness ==
    /\ called.op = "GetToken"
    /\ vault.ReAuth
    /\ called.more.loadErr = ""
    /\ called.more.renewErr # ""
    /\ called.more.authenticateCalls = 1
    /\ called.token = LoginToken
    /\ called.err = ""

\* C19: whenever GetToken returns a token and no error, the bearer token set
\* on the api client equals the token returned.
C19_BearerIsReturned ==
    (called.op = "GetToken" /\ called.err = "" /\ ~called.panic)
        => token = called.token

\* C19 on the path that loads and renews: the bearer token is the token
\* returned.
C19_BearerIsLoaded ==
    (called.op = "GetToken" /\ called.err = "" /\ ~called.panic
        /\ called.more.authenticateCalls = 0)
        => token = called.token

-----------------------------------------------------------------------------
(* C13: the persisted token.                                               *)

\* C13: a LoadToken that follows a successful StoreToken(t), t not empty,
\* returns t and no error; LoadToken on an empty token file returns "" and the
\* error "found empty token"; on a missing token file it returns "" and
\* another error, that of reading the file.
C13_StoreLoad ==
    [][called'.op = "LoadToken" =>
          /\ (called.op = "StoreToken" /\ called.err = "" /\ called.arg # "")
                 => (called'.token = called.arg /\ called'.err = "")
          /\ (vault'.TokenPath \in DOMAIN fs' /\ fs'[vault'.TokenPath] = "")
                 => (called'.token = "" /\ called'.err = "found empty token")
          /\ vault'.TokenPath \notin DOMAIN fs'
                 => (/\ called'.token = ""
                     /\ called'.err # "found empty token"
                     /\ HasPrefix(called'.err, "failed to load token: open "))]_vars

\* A token was stored and loaded again.
C13_Witness ==
    /\ called.op = "LoadToken"
    /\ called.token = "t1"
    /\ called.err = ""
    /\ fs[TokenFile] = "t1"

-----------------------------------------------------------------------------
(* C14, C15: NewFromEnvironment.                                           *)

ValidBools ==
    {"1", "t", "T", "TRUE", "true", "True", "0", "f", "F", "FALSE", "false", "False"}

TrueBools == {"1", "t", "T", "TRUE", "true", "True"}

BadBool(name) ==
    Getenv(environ, name) # "" /\ Getenv(environ, name) \notin ValidBools

BadDuration(name) ==
    Getenv(environ, name) # "" /\ ParseDuration(Getenv(environ, name)).err # ""

\* The environment has one of the faults C14 lists.
BadEnvironment ==
    \/ Getenv(environ, "VAULT_TOKEN_PATH") = ""
    \/ BadBool("VAULT_REAUTH")
    \/ BadBool("ALLOW_FAIL")
    \/ BadDuration("VAULT_TTL")

\* Whole seconds of the durations the environments set.
WholeSeconds(s) ==
    CASE s = "" -> 0
      [] s = "1h" -> 3600
      [] s = "90s" -> 90
      [] s = "1h30m" -> 5400
      [] s = "1500ms" -> 1
      [] s = "-1500ms" -> 0 - 1
      [] s = "1h1ms" -> 3600

\* The configuration has the values of the environment, the defaults for the
\* variables that are not set.
ConfiguredFrom(v, env) ==
    /\ v # NoVault
    /\ v.Role = Getenv(env, "VAULT_ROLE")
    /\ v.TokenPath = Getenv(env, "VAULT_TOKEN_PATH")
    /\ v.ReAuth = (Getenv(env, "VAULT_REAUTH") \in TrueBools)
    /\ v.AllowFail = (Getenv(env, "ALLOW_FAIL") \in TrueBools)
    /\ v.TTL = WholeSeconds(Getenv(env, "VAULT_TTL"))
    /\ Getenv(env, "VAULT_AUTH_MOUNT_PATH") = "" => v.AuthMountPath = "auth/kubernetes"
    /\ Getenv(env, "SERVICE_ACCOUNT_TOKEN_PATH") = ""
           => v.ServiceAccountTokenPath
                  = "/var/run/secrets/kubernetes.io/serviceaccount/token"
    /\ Getenv(env, "SERVICE_ACCOUNT_TOKEN_PATH") # ""
           => v.ServiceAccountTokenPath = Getenv(env, "SERVICE_ACCOUNT_TOKEN_PATH")

\* C14 as stated: NewFromEnvironment returns nil and an error when
\* VAULT_TOKEN_PATH is unset or empty, VAULT_REAUTH or ALLOW_FAIL is no valid
\* boolean or VAULT_TTL no valid duration, and otherwise a configuration with
\* the defaults for unset variables and VAULT_TTL in whole seconds.
C14_OtherwiseConfigured ==
    called.op = "NewFromEnvironment" =>
        /\ BadEnvironment => (vault = NoVault /\ called.err # "")
        /\ ~BadEnvironment => (ConfiguredFrom(vault, environ) /\ called.err = "")

\* C14, amended: the same, except that with none of these faults
\* NewFromEnvironment still returns nil and an error when the client library
\* fails to read its own environment or to build the client; it returns the
\* configuration when the library builds the client.
C14_NewFromEnvironment ==
    called.op = "NewFromEnvironment" =>
        /\ BadEnvironment => (vault = NoVault /\ called.err # "")
        /\ (~BadEnvironment /\ called.more.clientErr # "")
               => (vault = NoVault /\ called.err = called.more.clientErr)
        /\ (~BadEnvironment /\ called.more.clientErr = "")
               => (ConfiguredFrom(vault, environ) /\ called.err = "")

\* A configuration built from an environment that sets VAULT_TTL to "1h30m"
\* and leaves the paths of the auth mount and of the service account token
\* unset.
C14_Witness ==
    /\ called.op = "NewFromEnvironment"
    /\ called.err = ""
    /\ Getenv(environ, "VAULT_TTL") = "1h30m"
    /\ vault.TTL = 5400
    /\ Getenv(environ, "VAULT_AUTH_MOUNT_PATH") = ""
    /\ vault.AuthMountPath = "auth/kubernetes"
    /\ Getenv(environ, "SERVICE_ACCOUNT_TOKEN_PATH") = ""
    /\ ~vault.ReAuth

\* strings.Contains
Contains(s, substr) ==
    \E i \in 1..(Len(s) - Len(substr) + 1) :
        SubSeq(s, i, i + Len(substr) - 1) = substr

\* C15: the error NewFromEnvironment returns for a malformed VAULT_REAUTH
\* names VAULT_REAUTH, the one for a malformed VAULT_TTL names VAULT_TTL and
\* the one for a malformed ALLOW_FAIL names ALLOW_FAIL.
C15_ErrorNamesVariable ==
    (called.op = "NewFromEnvironment" /\ Getenv(environ, "VAULT_TOKEN_PATH") # "") =>
        /\ BadBool("VAULT_REAUTH") => Contains(called.err, "VAULT_REAUTH")
        /\ (~BadBool("VAULT_REAUTH") /\ BadDuration("VAULT_TTL"))
               => Contains(called.err, "VAULT_TTL")
        /\ (~BadBool("VAULT_REAUTH") /\ ~BadDuration("VAULT_TTL") /\ BadBool("ALLOW_FAIL"))
               => Contains(called.err, "ALLOW_FAIL")

\* C15 for VAULT_TTL and ALLOW_FAIL alone: their errors name them.
C15_ErrorNamesTTLAndAllowFail ==
    (called.op = "NewFromEnvironment" /\ Getenv(environ, "VAULT_TOKEN_PATH") # ""
        /\ ~BadBool("VAULT_REAUTH")) =>
        /\ BadDuration("VAULT_TTL") => Contains(called.err, "VAULT_TTL")
        /\ (~BadDuration("VAULT_TTL") /\ BadBool("ALLOW_FAIL"))
               => Contains(called.err, "ALLOW_FAIL")

-----------------------------------------------------------------------------
(* C16: the two rewrite strategies.                                        *)

OneSegmentMount == Len(Split(fnIn.mount, "/")) = 2

RelPath == TrimPrefix(fnIn.path, fnIn.mount)

\* No segment below the mount is empty, "." or "..": path.Join has nothing
\* to clean.
CleanBelowMount ==
    \A i \in 1..Len(Split(RelPath, "/")) : Split(RelPath, "/")[i] \notin {"", ".", ".."}

\* No segment below the mount is "." or "..".
NoDotsBelowMount ==
    \A i \in 1..Len(Split(RelPath, "/")) : Split(RelPath, "/")[i] \notin {".", ".."}

\* C16 as stated: for every path under a mount exactly one segment deep,
\* paths in revision-2 form and paths with a trailing "/" included, the naive
\* and the mount-aware FixPath return the same wire path (paths with a "." or
\* ".." segment, which are no valid paths, left aside).
C16_SameUnderOneSegment ==
    (fnIn.fn = "Strategies" /\ Len(fnOut) = 2 /\ OneSegmentMount /\ NoDotsBelowMount)
        => fnOut[1] = fnOut[2]

\* C16, amended: for every path under a mount exactly one segment deep that
\* is in revision-2 form already or has no empty, "." or ".." segment below
\* the mount, the naive and the mount-aware FixPath return the same wire
\* path; where they differ, the mount is more than one segment deep or the
\* path has such a segment.
C16_Strategies ==
    (fnIn.fn = "Strategies" /\ Len(fnOut) = 2) =>
        /\ (OneSegmentMount
               /\ (FirstSegment(RelPath) = fnIn.prefix \/ CleanBelowMount))
               => fnOut[1] = fnOut[2]
        /\ fnOut[1] # fnOut[2] => (~OneSegmentMount \/ ~CleanBelowMount)

\* A path in revision-2 form with a trailing "/", under a mount one segment
\* deep: both strategies leave it as it is.
C16_Witness ==
    /\ fnIn.fn = "Strategies"
    /\ fnIn.mount = "s/"
    /\ fnIn.path = "s/data/t/"
    /\ fnIn.prefix = ReadPrefix
    /\ fnOut = <<[path |-> "s/data/t/", panic |-> FALSE],
                 [path |-> "s/data/t/", panic |-> FALSE]>>

-----------------------------------------------------------------------------
(* C17: New and the order of the mount table.                              *)

\* The longest of the mount prefixes that are prefixes of p.
LongestMatch(p) ==
    CHOOSE k \in Matching(p) : \A j \in Matching(p) : Len(j) <= Len(k)

\* C17: what New returns is determined by the construction path and the
\* mount table, whatever the order in which the table's entries are visited,
\* and the Mount of the handle is the longest mount prefix that matches.
C17_OrderIndependent ==
    (last.op = "New" /\ ~last.failed /\ NewPathError(last.path) = "") =>
        /\ \A r \in getVersionAndMount(mounts, last.path) :
              /\ r.err = last.err
              /\ r.err = "" => client = Client(r.version, r.mount)
        /\ client # NoClient => client.Mount = LongestMatch(last.path)

\* C17 where one mount prefix at most matches the path: the outcome is
\* determined.
C17_SingleMatch ==
    (last.op = "New" /\ ~last.failed /\ NewPathError(last.path) = ""
        /\ Cardinality(Matching(last.path)) <= 1) =>
        /\ \A r \in getVersionAndMount(mounts, last.path) :
              /\ r.err = last.err
              /\ r.err = "" => client = Client(r.version, r.mount)
        /\ client # NoClient => client.Mount = LongestMatch(last.path)

-----------------------------------------------------------------------------
(* C18: Read and List on every answer.                                     *)

\* C18: Read and List return, with a result or an error, on every answer the
\* collaborator gives without an error: no type assertion fails.
C18_ReturnsNormally == last.op \in {"Read", "List"} => ~last.panic

\* C18 for a revision-1 Read: it returns on every answer.
C18_ReadRevisionOne ==
    (last.op = "Read" /\ client.Version = 1) => ~last.panic

-----------------------------------------------------------------------------
(* C20: the rewrite is injective.                                          *)

\* C20: on a revision-2 handle two different caller paths under the mount are
\* never rewritten to the same wire path, so that every caller path written
\* to holds a secret of its own.
C20_Injective ==
    client.Version = 2 =>
        /\ \A p, q \in written : p # q => WriteWire(client, p) # WriteWire(client, q)
        /\ Cardinality(DOMAIN secrets) = Cardinality(written)

\* C20 for caller paths whose first segment below the mount is not "data":
\* their wire paths differ.
C20_InjectiveOnPlainPaths ==
    client.Version = 2 =>
        \A p, q \in written :
            (/\ p # q
             /\ FirstSegment(TrimPrefix(p, client.Mount)) # "data"
             /\ FirstSegment(TrimPrefix(q, client.Mount)) # "data")
                => WriteWire(client, p) # WriteWire(client, q)

-----------------------------------------------------------------------------
(* C21: who writes the persisted token file.                               *)

\* What a LoadToken made now would return.
Persisted == LoadTokenReturn(vault, fs)

\* C21: the files change only in StoreToken: Authenticate, LoadToken,
\* UseToken, GetToken (its re-authentication included) and NewRenewer leave
\* the persisted token file as it was. A LoadToken that follows a GetToken
\* which re-authenticated therefore returns what the file held before that
\* GetToken: the error which made GetToken re-authenticate when the load had
\* failed, else the token GetToken loaded and set as bearer token, and never
\* the token of the login.
C21_OnlyStoreTokenWrites ==
    [][/\ fs' # fs => called'.op = "StoreToken"
       /\ called'.op \in {"Authenticate", "LoadToken", "UseToken", "GetToken",
                          "NewRenewer"}
              => Persisted' = Persisted
       /\ (/\ called.op = "GetToken"
           /\ called.more.authenticateCalls = 1
           /\ called'.op = "LoadToken")
              => /\ called'.err = called.more.loadErr
                 /\ called.more.loadErr = "" => called'.token = token
                 /\ called'.token # LoginToken]_vars

\* GetToken re-authenticated after a failed renewal and returned the token of
\* the login, and the token file still holds the token it held at the start.
C21_Witness ==
    /\ called.op = "GetToken"
    /\ called.more.authenticateCalls = 1
    /\ called.more.renewCalls = 1
    /\ called.err = ""
    /\ called.token = LoginToken
    /\ TokenFile \in DOMAIN fs
    /\ fs[TokenFile] = "t0"

====
